---- MODULE Spec2Model ----
(***************************************************************************)
(* TAXII to CrowdStrike IOC ingestion: a state-machine model of            *)
(* src/taxii_to_crowdstrike.py (retry, token fetch, paginated poll,        *)
(* existence check, create/update) and of the pattern parser of            *)
(* src/crowdstrike_ioc_ingestor.py (transform_stix_to_ioc).                *)
(***************************************************************************)
EXTENDS Integers, Sequences, FiniteSets, TLC

(* ------------------------------ bounds --------------------------------- *)
\* pages the store's query endpoint may spread one answer over
MaxQueryPages == 2
\* raised faults (connection errors, malformed bodies) the remote services cause in a run
MaxRaises == 3
\* non-success status codes the remote services answer in a run
MaxErrs == 1
\* tokens in a pattern handed to the parser
MaxPatLen == 7

(* ------------------------- program constants --------------------------- *)
MAX_RETRIES == 3
INITIAL_DELAY == 5
EXPIRY_DAYS == 90

None == "None"
Q == "'"

(* --------------------------- pattern strings --------------------------- *)
\* A pattern is a sequence of tokens: the three keywords, the single quote,
\* and pieces of other text.
Keywords == {"domain-name", "ipv4-addr", "file:hashes"}

Contains(pattern, kw) == \E k \in 1..Len(pattern) : pattern[k] = kw

\* str.split("'"): the pieces between the quotes, in order (n quotes give n+1 pieces)
RECURSIVE Split(_)
Split(s) ==
  IF s = <<>> THEN << <<>> >>
  ELSE LET rest == Split(Tail(s)) IN
       IF Head(s) = Q THEN << <<>> >> \o rest
       ELSE << <<Head(s)>> \o Head(rest) >> \o Tail(rest)

\* pattern.split("'")[1] raises IndexError when the pattern holds no quote
Raises(pattern) == Len(Split(pattern)) < 2

\* pattern.split("'")[1]
Extract(pattern) == Split(pattern)[2]

\* the type transform_stix_to_ioc gives a pattern (None: unsupported)
Kind(pattern) ==
  IF Contains(pattern, "domain-name") THEN "domain"
  ELSE IF Contains(pattern, "ipv4-addr") THEN "ipv4"
  ELSE IF Contains(pattern, "file:hashes") THEN "sha256"
  ELSE None

(* ------------------------------ the feed ------------------------------- *)
PatDomain == <<"domain-name", Q, "example.test", Q>>
PatHash == <<"file:hashes", Q, "9f86d0", Q>>
PatIpv4 == <<"ipv4-addr", Q, "192.0.2.1", Q>>
PatNoQuote == <<"domain-name", "example.test">>
PatUrl == <<"url", Q, "example.test/x", Q>>

Indicator(p) == [type |-> "indicator", pattern |-> p]
Other == [type |-> "malware", pattern |-> <<>>]

\* the pages a feed is made of: an empty page, a page with one domain
\* indicator, one with a hash indicator, one with an object that is no
\* indicator before an ipv4 indicator, and one whose indicator has no quote
FeedPages ==
  { <<>>, <<Indicator(PatDomain)>>, <<Indicator(PatHash)>>,
    <<Other, Indicator(PatIpv4)>>, <<Indicator(PatNoQuote)>> }

\* the pages whose one indicator is no domain indicator
OtherKindPages == { <<Indicator(PatHash)>>, <<Other, Indicator(PatIpv4)>> }

\* the feeds a run may meet: every feed of one page, the feeds of two pages
\* (not those of two pages that both hold an indicator of another kind than
\* domain), a three-page feed with an empty page in the middle, and a feed
\* with an indicator whose pattern holds none of the keywords
Feeds ==
  { <<p>> : p \in FeedPages }
  \cup { <<p, r>> : p \in FeedPages \ OtherKindPages, r \in FeedPages }
  \cup { <<p, r>> : p \in OtherKindPages, r \in FeedPages \ OtherKindPages }
  \cup { << <<Indicator(PatDomain)>>, <<>>, <<Indicator(PatHash)>> >> }
  \cup { << <<Indicator(PatUrl)>> >> }

(* ------------------------------- state --------------------------------- *)
VARIABLES
  pc,            \* where main() stands: "token", "poll", "poll_pause", "check", "write",
                 \* "push_pause", "exit" (early return, no token), "done" (completion log)
  n,             \* retry: attempt number
  delay,         \* retry: next backoff sleep
  access_token,  \* main: the token, or None
  iocs,          \* main: what retry(poll_taxii_server) returned
  next_token,    \* poll_taxii_server: cursor of the next page (0: None)
  all_iocs,      \* poll_taxii_server: values accumulated in this call
  idx,           \* push_iocs_to_crowdstrike: position of the for loop in iocs
  q_token,       \* check_ioc_exists_paginated: cursor of the next query page (0: None)
  exists,        \* what check_ioc_exists_paginated returned for the current item
  q_failed,      \* the current item's existence query got a non-200 answer
  q_pages,       \* how the pages of the current item's existence query answered, in order
  store,         \* the values present in the target store
  feed,          \* the pages the TAXII collection serves
  store0,        \* the values the store held when the run began
  waits,         \* per stage, the backoff sleeps of its retry call, in order
  outs,          \* per stage, how each attempt of its retry call ended
  token_reqs,    \* token requests sent
  reqs,          \* cursors passed by the page requests of the current poll call
  poll_failed,   \* the poll call that returned saw a non-200 page
  page_faults,   \* page requests of the run that raised a network fault
  pages_ok,      \* pages of the run that were answered 200 and collected
  pauses,        \* rate_limit() calls, per stage
  writes,        \* the create/update requests sent, in order
  raises,        \* raised faults the remote services caused so far
  errs,          \* non-success answers the remote services gave so far
  pattern,       \* parser: the pattern handed to transform_stix_to_ioc
  parsed         \* parser: what transform_stix_to_ioc did with it

retry_vars == <<n, delay, waits, outs>>
poll_vars == <<next_token, all_iocs, reqs, poll_failed, page_faults, pages_ok>>
push_vars == <<idx, q_token, exists, q_failed, q_pages, store, writes>>
parse_vars == <<pattern, parsed>>
world == <<feed, store0>>
vars == <<pc, n, delay, access_token, iocs, next_token, all_iocs, idx, q_token, exists,
          q_failed, q_pages, store, feed, store0, waits, outs, token_reqs, reqs, poll_failed,
          page_faults, pages_ok,
          pauses, writes, raises, errs, pattern, parsed>>

Stages == {"token", "poll", "push"}

\* a value retry hands back to main: None, or what the function returned
RetNone == [none |-> TRUE, val |-> <<>>]
Ret(v) == [none |-> FALSE, val |-> v]

(* ------------------------------- retry --------------------------------- *)
\* a backoff that forgets to double
NextDelayConstant(d) == d

\* delay *= 2
NextDelay(d) == d * 2

\* a loop that allows one attempt more
ExhaustedLate(k) == k > MAX_RETRIES + 1

\* the loop condition of retry, negated: no attempt is left
Exhausted(k) == k > MAX_RETRIES

\* a retry that does not sleep when no attempt is left
RetryExceptNoLastWait(stage) ==
  /\ waits' = IF Exhausted(n + 1) THEN waits ELSE [waits EXCEPT ![stage] = Append(@, delay)]
  /\ outs' = [outs EXCEPT ![stage] = Append(@, "raise")]
  /\ n' = n + 1
  /\ delay' = NextDelay(delay)

\* the except branch of retry: log, sleep(delay), n += 1, delay *= 2
RetryExcept(stage) ==
  /\ waits' = [waits EXCEPT ![stage] = Append(@, delay)]
  /\ outs' = [outs EXCEPT ![stage] = Append(@, "raise")]
  /\ n' = n + 1
  /\ delay' = NextDelay(delay)

\* func returned: retry returns its value at once, whatever the value says
\* ("ok": the function did its work, "error": it reports a failure)
RetryReturn(stage, how) ==
  /\ outs' = [outs EXCEPT ![stage] = Append(@, how)]
  /\ UNCHANGED waits

\* n = 1; delay = 5
RetryStart ==
  /\ n' = 1
  /\ delay' = INITIAL_DELAY

(* ------------------------------- token --------------------------------- *)
\* how the token endpoint answers: 200 with a token, 200 without the field,
\* another status, or a raised fault
TokenOutcomes == {"ok", "nofield", "non200", "raise"}

\* a main that goes on to the poll whatever the token request gave
TokenResultUnchecked(out) == "token"

\* get_crowdstrike_token's return value
TokenResult(out) == IF out = "ok" THEN "token" ELSE None

\* poll_taxii_server is entered: next_token = None, all_iocs = []
PollEnter ==
  /\ next_token' = 0
  /\ all_iocs' = <<>>
  /\ reqs' = <<>>
  /\ poll_failed' = FALSE

\* access_token = retry(get_crowdstrike_token); if not access_token: return
GetToken ==
  /\ pc = "token"
  /\ \E out \in TokenOutcomes :
       /\ out = "raise" => raises < MaxRaises
       /\ out = "non200" => errs < MaxErrs
       /\ token_reqs' = token_reqs + 1
       /\ raises' = IF out = "raise" THEN raises + 1 ELSE raises
       /\ errs' = IF out = "non200" THEN errs + 1 ELSE errs
       /\ IF out = "raise"
            THEN /\ RetryExcept("token")
                 /\ IF Exhausted(n + 1)
                      THEN access_token' = None /\ pc' = "exit"
                      ELSE UNCHANGED access_token /\ pc' = "token"
                 /\ UNCHANGED poll_vars
            ELSE /\ RetryReturn("token", IF out = "ok" THEN "ok" ELSE "error")
                 /\ access_token' = TokenResult(out)
                 /\ IF TokenResult(out) = None
                      THEN pc' = "exit" /\ UNCHANGED <<n, delay, poll_vars>>
                      ELSE pc' = "poll" /\ RetryStart /\ PollEnter /\ UNCHANGED <<page_faults, pages_ok>>
  /\ UNCHANGED <<iocs, push_vars, world, pauses, parse_vars>>

(* -------------------------------- poll --------------------------------- *)
\* the page the feed serves for a cursor
PageAt(f, cursor) == f[cursor + 1]

\* a poll that never follows the cursor
CursorAfterDropped(f, cursor) == 0

\* taxii_data.get('next_token') of that page: absent (0) on the last page
CursorAfter(f, cursor) == IF cursor + 1 < Len(f) THEN cursor + 1 ELSE 0

\* some indicator of the page makes pattern.split("'")[1] raise IndexError
PageRaises(page) ==
  \E k \in 1..Len(page) : page[k].type = "indicator" /\ Raises(page[k].pattern)

\* the indicator objects of a page, in order
RECURSIVE PageIndicators(_)
PageIndicators(page) ==
  IF page = <<>> THEN <<>>
  ELSE (IF Head(page).type = "indicator" THEN <<Head(page)>> ELSE <<>>)
       \o PageIndicators(Tail(page))

\* [obj['pattern'].split("'")[1] for obj in objects if obj['type'] == 'indicator']
PageIocs(page) ==
  LET ind == PageIndicators(page) IN [k \in 1..Len(ind) |-> Extract(ind[k].pattern)]

\* a batch that resumes at the item it was interrupted at
PushEnterResumed ==
  /\ idx' = idx
  /\ q_token' = 0
  /\ q_failed' = FALSE
  /\ q_pages' = <<>>

\* push_iocs_to_crowdstrike is entered: the for loop stands at the first item
PushEnter ==
  /\ idx' = 1
  /\ q_token' = 0
  /\ q_failed' = FALSE
  /\ q_pages' = <<>>

\* poll_taxii_server returned result: iocs = result; if iocs: retry(push...); log
PollReturn(result, how) ==
  /\ RetryReturn("poll", how)
  /\ iocs' = Ret(result)
  /\ IF result # <<>>
       THEN pc' = "check" /\ RetryStart /\ PushEnter
       ELSE pc' = "done" /\ UNCHANGED <<n, delay, idx, q_token, q_failed, q_pages>>

\* one pass of the while loop of poll_taxii_server up to the rate limit:
\* request the page, break on a non-200 answer, else collect its indicators
PollRequest ==
  /\ pc = "poll"
  /\ \E out \in {"ok", "non200", "raise"} :
       LET page == PageAt(feed, next_token)
           fault == out = "raise" \/ (out = "ok" /\ PageRaises(page))
       IN
       /\ out = "raise" => raises < MaxRaises
       /\ out = "non200" => errs < MaxErrs
       /\ raises' = IF out = "raise" THEN raises + 1 ELSE raises
       /\ errs' = IF out = "non200" THEN errs + 1 ELSE errs
       /\ page_faults' = IF out = "raise" THEN page_faults + 1 ELSE page_faults
       /\ pages_ok' = IF out = "ok" /\ ~fault THEN pages_ok + 1 ELSE pages_ok
       /\ CASE fault ->
                 /\ RetryExcept("poll")
                 /\ IF Exhausted(n + 1)
                      THEN /\ iocs' = RetNone
                           /\ pc' = "done"
                           /\ reqs' = Append(reqs, next_token)
                           /\ UNCHANGED <<next_token, all_iocs, poll_failed>>
                      ELSE /\ pc' = "poll"
                           /\ PollEnter
                           /\ UNCHANGED iocs
                 /\ UNCHANGED <<idx, q_token, q_failed, q_pages>>
            [] out = "non200" ->
                 /\ reqs' = Append(reqs, next_token)
                 /\ poll_failed' = TRUE
                 /\ PollReturn(all_iocs, "error")
                 /\ UNCHANGED <<next_token, all_iocs>>
            [] OTHER ->
                 /\ reqs' = Append(reqs, next_token)
                 /\ all_iocs' = all_iocs \o PageIocs(page)
                 /\ pc' = "poll_pause"
                 /\ UNCHANGED <<retry_vars, iocs, next_token, poll_failed, idx, q_token, q_failed, q_pages>>
  /\ UNCHANGED <<access_token, exists, store, writes, world, token_reqs, pauses, parse_vars>>

\* a poll that pauses only between two pages, not after the last one
PollPauseBetweenPagesOnly ==
  /\ pc = "poll_pause"
  /\ pauses' = IF CursorAfter(feed, next_token) = 0 THEN pauses
                ELSE [pauses EXCEPT !["poll"] = @ + 1]
  /\ IF CursorAfter(feed, next_token) = 0
       THEN PollReturn(all_iocs, "ok") /\ UNCHANGED next_token
       ELSE /\ next_token' = CursorAfter(feed, next_token)
            /\ pc' = "poll"
            /\ UNCHANGED <<retry_vars, iocs, idx, q_token, q_failed, q_pages>>
  /\ UNCHANGED <<access_token, all_iocs, reqs, poll_failed, page_faults, pages_ok, exists, store,
                 writes,
                 world, token_reqs, raises, errs, parse_vars>>

\* the rest of the pass: rate_limit(); next_token = ...; if not next_token: break
PollPause ==
  /\ pc = "poll_pause"
  /\ pauses' = [pauses EXCEPT !["poll"] = @ + 1]
  /\ IF CursorAfter(feed, next_token) = 0
       THEN PollReturn(all_iocs, "ok") /\ UNCHANGED next_token
       ELSE /\ next_token' = CursorAfter(feed, next_token)
            /\ pc' = "poll"
            /\ UNCHANGED <<retry_vars, iocs, idx, q_token, q_failed, q_pages>>
  /\ UNCHANGED <<access_token, all_iocs, reqs, poll_failed, page_faults, pages_ok, exists, store,
                 writes,
                 world, token_reqs, raises, errs, parse_vars>>

(* -------------------------------- push --------------------------------- *)
\* how one page of the store's query endpoint answers. The store answers
\* truthfully: resources are reported only for a value it holds, and the
\* pagination of a held value ends in a page that reports it.
QueryOutcomes == {"hit", "empty_next", "empty_last", "non200", "raise"}

QueryPossible(out, v) ==
  CASE out = "hit" -> v \in store
    [] out = "empty_next" -> q_token + 1 < MaxQueryPages
    [] out = "empty_last" -> v \notin store
    [] out = "non200" -> errs < MaxErrs
    [] OTHER -> raises < MaxRaises

\* the except branch of retry around push_iocs_to_crowdstrike, then the next
\* attempt (the for loop starts over) or the end of main
PushFault ==
  /\ RetryExcept("push")
  /\ IF Exhausted(n + 1)
       THEN pc' = "done" /\ UNCHANGED <<idx, q_token, q_failed, q_pages>>
       ELSE pc' = "check" /\ PushEnter

\* a check that takes every 200 page without a cursor for a hit
FoundOnAnyLastPage(out) == out \in {"hit", "empty_last"}

\* a check that answers True when the query fails
FoundOrFailed(out) == out \in {"hit", "non200"}

\* what check_ioc_exists_paginated returns on the page that ends its loop:
\* True for a page with resources, False for a non-200 answer and for an
\* empty page without next_token
Found(out) == out = "hit"

\* a loop that walks the list backwards
ItemReversed(list, i) == list[Len(list) + 1 - i]

\* for ioc in iocs: the item the loop stands at
Item(list, i) == list[i]

\* one pass of the while loop of check_ioc_exists_paginated for iocs[idx]
CheckRequest ==
  /\ pc = "check"
  /\ \E out \in QueryOutcomes :
       /\ QueryPossible(out, Item(iocs.val, idx))
       /\ raises' = IF out = "raise" THEN raises + 1 ELSE raises
       /\ errs' = IF out = "non200" THEN errs + 1 ELSE errs
       /\ CASE out = "raise" -> PushFault /\ UNCHANGED exists
            [] out = "empty_next" ->
                 /\ q_token' = q_token + 1
                 /\ q_pages' = Append(q_pages, out)
                 /\ pc' = "check"
                 /\ UNCHANGED <<retry_vars, idx, exists, q_failed>>
            [] OTHER ->
                 /\ exists' = Found(out)
                 /\ q_failed' = (out = "non200")
                 /\ q_pages' = Append(q_pages, out)
                 /\ pc' = "write"
                 /\ UNCHANGED <<retry_vars, idx, q_token>>
  /\ UNCHANGED <<access_token, iocs, poll_vars, store, writes, world, token_reqs, pauses,
                 parse_vars>>

\* an engine that creates whatever the existence check said
WriteMethodAlwaysPost(found) == "POST"

\* the request the engine sends for an item: patch when it exists, post when not
WriteMethod(found) == IF found THEN "PATCH" ELSE "POST"

\* the "type" the payload carries
PayloadType(ioc) == "domain"

\* the JSON body of the create and of the update
Payload(ioc) ==
  [type |-> PayloadType(ioc), value |-> ioc, action |-> "detect",
   valid_until |-> EXPIRY_DAYS, source |-> "TAXII Import"]

\* response.status_code not in (200, 201)
PushFailed(status) == status \notin {200, 201}

\* what a write does to the store: a create the store accepted adds the value
StoreAfter(method, ioc, accepted) ==
  IF method = "POST" /\ accepted THEN store \cup {ioc} ELSE store

\* a loop that treats a failure status like a raised fault
AfterWriteRaising(status) ==
  IF status = 0 \/ PushFailed(status)
    THEN PushFault
    ELSE /\ pc' = "push_pause"
         /\ UNCHANGED <<retry_vars, idx, q_token, q_failed, q_pages>>

\* after the response: a failure status is logged and the loop goes on to the
\* rate limit; only a raised fault (status 0) leaves the loop
AfterWrite(status) ==
  IF status = 0
    THEN PushFault
    ELSE /\ pc' = "push_pause"
         /\ UNCHANGED <<retry_vars, idx, q_token, q_failed, q_pages>>

\* the create or update for iocs[idx]; a request that raised may or may not
\* have been applied by the store (status 0)
WriteRequest ==
  /\ pc = "write"
  /\ \E status \in {200, 201, 500, 0}, applied \in BOOLEAN :
       LET ioc == Item(iocs.val, idx)
           method == WriteMethod(exists)
       IN
       /\ status = 0 => raises < MaxRaises
       /\ status = 500 => errs < MaxErrs
       /\ applied = TRUE \/ (status = 0 /\ method = "POST")
       /\ raises' = IF status = 0 THEN raises + 1 ELSE raises
       /\ errs' = IF status = 500 THEN errs + 1 ELSE errs
       /\ writes' = Append(writes,
            [pass |-> n, item |-> idx, method |-> method, payload |-> Payload(ioc),
             token |-> access_token,
             found |-> exists, q_failed |-> q_failed, present |-> ioc \in store,
             raised |-> (status = 0), failed |-> PushFailed(status)])
       /\ store' = StoreAfter(method, ioc,
                              IF status = 0 THEN applied ELSE ~PushFailed(status))
       /\ AfterWrite(status)
  /\ UNCHANGED <<access_token, iocs, poll_vars, exists, world, token_reqs, pauses, parse_vars>>

\* rate_limit() after the item, then the next item or the end of the batch
PushPause ==
  /\ pc = "push_pause"
  /\ pauses' = [pauses EXCEPT !["push"] = @ + 1]
  /\ idx' = idx + 1
  /\ q_token' = 0
  /\ q_failed' = FALSE
  /\ q_pages' = <<>>
  /\ IF idx + 1 > Len(iocs.val)
       THEN pc' = "done" /\ RetryReturn("push", "ok")
       ELSE pc' = "check" /\ UNCHANGED <<waits, outs>>
  /\ UNCHANGED <<n, delay, access_token, iocs, poll_vars, exists, store, writes, world,
                 token_reqs, raises, errs, parse_vars>>

(* ------------------------------ the run -------------------------------- *)
\* the indicator objects of a feed, in page order and within-page order
RECURSIVE FeedIndicators(_)
FeedIndicators(f) ==
  IF f = <<>> THEN <<>> ELSE PageIndicators(Head(f)) \o FeedIndicators(Tail(f))

\* the values a run can take from the feed; the store's other content plays no part
FeedValues(f) ==
  LET ind == FeedIndicators(f) IN
  { Extract(ind[k].pattern) : k \in { j \in 1..Len(ind) : ~Raises(ind[j].pattern) } }

(* -------------------------------- parse -------------------------------- *)
NoParse == [status |-> "pending", type |-> None, value |-> <<>>]

\* transform_stix_to_ioc: None for an unsupported pattern, IndexError when
\* split("'")[1] does not exist, else the record
Transform(p) ==
  IF Kind(p) = None THEN [status |-> "none", type |-> None, value |-> <<>>]
  ELSE IF Raises(p) THEN [status |-> "IndexError", type |-> Kind(p), value |-> <<>>]
  ELSE [status |-> "record", type |-> Kind(p), value |-> Extract(p)]

\* the tokens patterns are built from: the keywords, the quote, other text
Alphabet == Keywords \cup {Q, "a"}

Patterns == UNION { [1..m -> Alphabet] : m \in 0..MaxPatLen }

\* ioc_data = transform_stix_to_ioc(obj)
Parse ==
  /\ pc = "parse"
  /\ parsed' = Transform(pattern)
  /\ pc' = "parsed"
  /\ UNCHANGED <<n, delay, access_token, iocs, poll_vars, push_vars, world, waits, outs,
                 token_reqs, pauses, raises, errs, pattern>>

(* ---------------------------- specification ---------------------------- *)
\* the locals of main() and of the functions it calls, before the first step
Start ==
  /\ n = 1
  /\ delay = INITIAL_DELAY
  /\ access_token = None
  /\ iocs = RetNone
  /\ next_token = 0
  /\ all_iocs = <<>>
  /\ idx = 1
  /\ q_token = 0
  /\ exists = FALSE
  /\ q_failed = FALSE
  /\ q_pages = <<>>
  /\ waits = [s \in Stages |-> <<>>]
  /\ outs = [s \in Stages |-> <<>>]
  /\ token_reqs = 0
  /\ reqs = <<>>
  /\ poll_failed = FALSE
  /\ page_faults = 0
  /\ pages_ok = 0
  /\ pauses = [s \in {"poll", "push"} |-> 0]
  /\ writes = <<>>
  /\ raises = 0
  /\ errs = 0
  /\ parsed = NoParse

\* main() is entered; the feed serves some pages and the store holds some of
\* the values the feed names
Init ==
  /\ pc = "token"
  /\ Start
  /\ feed \in Feeds
  /\ store \in SUBSET FeedValues(feed)
  /\ store0 = store
  /\ pattern = <<>>

Next ==
  \/ GetToken
  \/ PollRequest
  \/ PollPause
  \/ CheckRequest
  \/ WriteRequest
  \/ PushPause

Spec == Init /\ [][Next]_vars

\* the feeds of one page and the feed of three pages: termination is checked
\* on these, with a store that holds none or all of the feed's values
FairFeeds == { f \in Feeds : Len(f) # 2 }

InitFair ==
  /\ pc = "token"
  /\ Start
  /\ feed \in FairFeeds
  /\ store \in {{}, FeedValues(feed)}
  /\ store0 = store
  /\ pattern = <<>>

\* the program is sequential and every call it makes returns or raises:
\* a run that can take a step takes one
FairSpec == InitFair /\ [][Next]_vars /\ WF_vars(Next)

\* the parser alone, on every pattern of up to MaxPatLen tokens
InitParse ==
  /\ pc = "parse"
  /\ Start
  /\ feed = << <<>> >>
  /\ store = {}
  /\ store0 = {}
  /\ pattern \in Patterns

NextParse == Parse

SpecParse == InitParse /\ [][NextParse]_vars

(* ------------------------------ properties ----------------------------- *)
\* the values a poll of the whole feed collects: Extract of every indicator's
\* pattern, in page order and within-page order
ExpectedIocs(f) ==
  LET ind == FeedIndicators(f) IN [k \in 1..Len(ind) |-> Extract(ind[k].pattern)]

Last(q) == q[Len(q)]

\* the run is over
Ended == pc \in {"exit", "done"}

\* C1: an operation that raises on its first two attempts and succeeds on the
\* third makes retry return the success value after waits of 5s and 10s; an
\* operation that raises on all 3 attempts makes retry return None to main,
\* which goes on to its own normal end (nothing propagates out of retry).
C1_RetryContract ==
  /\ \A s \in Stages :
       outs[s] = <<"raise", "raise", "ok">> => waits[s] = <<5, 10>>
  /\ outs["token"] = <<"raise", "raise", "ok">> => access_token = "token"
  /\ outs["poll"] = <<"raise", "raise", "ok">> => iocs = Ret(ExpectedIocs(feed))
  /\ outs["token"] = <<"raise", "raise", "raise">> => (access_token = None /\ pc = "exit")
  /\ outs["poll"] = <<"raise", "raise", "raise">> => (iocs = RetNone /\ pc = "done")
  /\ outs["push"] = <<"raise", "raise", "raise">> => pc = "done"

\* C1 witness: the poll raised twice, then succeeded and handed main a non-empty list
C1_Witness ==
  /\ outs["poll"] = <<"raise", "raise", "ok">>
  /\ waits["poll"] = <<5, 10>>
  /\ iocs.val # <<>>

\* C2 (as claimed): a stage whose operation ends with an explicit error result
\* (token or poll endpoint answering non-200) is given up only once its 3
\* attempts are used up.
C2_ErrorResultIsRetried ==
  Ended =>
    \A s \in Stages :
      (outs[s] # <<>> /\ Last(outs[s]) = "error") => Len(outs[s]) = MAX_RETRIES

\* C3 (as claimed): no create (POST) is issued for a value the store holds at
\* the moment of the create.
C3_NoCreateForPresentValue ==
  \A k \in DOMAIN writes : writes[k].method = "POST" => ~writes[k].present

\* C4 (as claimed): a poll call that got a non-success page hands none of the
\* indicators of its earlier pages to the caller, and none is pushed.
C4_NoPartialResult ==
  poll_failed => (iocs.val = <<>> /\ writes = <<>>)

\* the poll stage is over and main holds its result
Polled == pc \in {"check", "write", "push_pause", "done"}

\* C5 (as claimed): when every page request of the run was answered
\* successfully, the poll requested each page once, passing the previous page's
\* cursor, and returned the concatenation of all pages' indicator entries in
\* order.
C5_PollReturnsAllPages ==
  (Polled /\ ~poll_failed /\ page_faults = 0) =>
    /\ ~iocs.none
    /\ reqs = [k \in 1..Len(feed) |-> k - 1]
    /\ iocs.val = ExpectedIocs(feed)

\* the writes of one pass of the batch, in order
PassWrites(p) == SelectSeq(writes, LAMBDA w : w.pass = p)

\* the push stage is running
Pushing == pc \in {"check", "write", "push_pause"}

\* C6: each IOC processed in a pass gets exactly one write request, an update
\* (PATCH) when its existence query returned true and a create (POST) when it
\* returned false.
C6_OneWritePerItem ==
  /\ \A k \in DOMAIN writes :
       writes[k].method = (IF writes[k].found THEN "PATCH" ELSE "POST")
  /\ Pushing =>
       LET cur == PassWrites(n)
           processed == IF pc = "push_pause" THEN idx ELSE idx - 1
       IN /\ Len(cur) = processed
          /\ \A j \in 1..Len(cur) : cur[j].item = j /\ cur[j].payload.value = iocs.val[j]

\* C6 witness: a finished batch that updated one item and created another
C6_Witness ==
  /\ pc = "done"
  /\ \E j, k \in DOMAIN writes :
       /\ writes[j].found /\ writes[j].method = "PATCH"
       /\ ~writes[k].found /\ writes[k].method = "POST"

\* raised faults of the push stage
PushRaises == raises - page_faults - Len(waits["token"])

\* C7: a create/update answered outside {200, 201} affects its item only: the
\* batch is retried for raised faults alone, the write after a failed one is
\* the next item of the same pass, and a pass that is not interrupted by a
\* raised fault writes every item of the list in order.
C7_FailureIsolated ==
  /\ Len(waits["push"]) = PushRaises
  /\ \A k \in 1..(Len(writes) - 1) :
       (writes[k].failed /\ ~writes[k].raised /\ writes[k + 1].pass = writes[k].pass)
         => writes[k + 1].item = writes[k].item + 1
  /\ (pc = "done" /\ outs["push"] # <<>> /\ Last(outs["push"]) = "ok") =>
       LET cur == PassWrites(n) IN
         /\ Len(cur) = Len(iocs.val)
         /\ \A j \in 1..Len(cur) : cur[j].payload.value = iocs.val[j]

\* C7 witness: a failed write was followed by the write of the next item in the
\* same pass, and the batch finished
C7_Witness ==
  /\ pc = "done"
  /\ outs["push"] # <<>>
  /\ Last(outs["push"]) = "ok"
  /\ \E k \in 1..(Len(writes) - 1) :
       /\ writes[k].failed /\ ~writes[k].raised
       /\ writes[k + 1].pass = writes[k].pass
       /\ writes[k + 1].item = writes[k].item + 1

\* the end-to-end scenario: page 1 holds the domain indicator example.test and
\* a cursor, page 2 a hash indicator and no cursor; the store holds
\* example.test and not the hash; no request fails
ScenarioFeed == << <<Indicator(PatDomain)>>, <<Indicator(PatHash)>> >>
Scenario ==
  /\ feed = ScenarioFeed
  /\ store0 = {Extract(PatDomain)}
  /\ raises = 0
  /\ errs = 0
  /\ \A s \in Stages : \A k \in DOMAIN outs[s] : outs[s][k] = "ok"

\* the scenario's writes: one PATCH for example.test, then one POST for the hash
ScenarioWrites ==
  /\ Len(writes) = 2
  /\ writes[1].method = "PATCH" /\ writes[1].payload.value = Extract(PatDomain)
  /\ writes[2].method = "POST" /\ writes[2].payload.value = Extract(PatHash)

\* C8 (as claimed): the scenario ends with one PATCH, one POST, two pauses
\* during polling, exactly one pause in the push stage and one token request.
C8_EndToEndOnePushPause ==
  (Scenario /\ pc = "done") =>
    /\ ScenarioWrites
    /\ pauses["poll"] = 2
    /\ pauses["push"] = 1
    /\ token_reqs = 1

\* C8 (amended): the scenario ends with one PATCH, one POST, two pauses during
\* polling, two pauses in the push stage (one between the two pushes and one
\* after the second) and one token request; it never takes the early exit.
C8_EndToEnd ==
  /\ Scenario => pc # "exit"
  /\ (Scenario /\ Pushing /\ Len(writes) = 1) =>
       pauses["push"] = (IF pc = "push_pause" THEN 0 ELSE 1)
  /\ (Scenario /\ Pushing /\ Len(writes) = 2) => pauses["push"] = 1
  /\ (Scenario /\ pc = "done") =>
       /\ ScenarioWrites
       /\ pauses["poll"] = 2
       /\ pauses["push"] = 2
       /\ token_reqs = 1

\* C8 witness: the scenario ran to the completion log
C8_Witness == Scenario /\ pc = "done" /\ Len(writes) = 2

\* C9 (as claimed): every payload carries the kind of the pattern its
\* indicator has and that indicator's extracted value.
C9_PayloadIsNormalized ==
  \A k \in DOMAIN writes :
    LET src == FeedIndicators(feed)[writes[k].item].pattern IN
      /\ writes[k].payload.value = Extract(src)
      /\ writes[k].payload.type = Kind(src)

\* the keyword the classification matches, by the fixed priority
MatchedKeyword(p) ==
  IF Contains(p, "domain-name") THEN "domain-name"
  ELSE IF Contains(p, "ipv4-addr") THEN "ipv4-addr"
  ELSE "file:hashes"

KindOf(kw) ==
  CASE kw = "domain-name" -> "domain"
    [] kw = "ipv4-addr" -> "ipv4"
    [] OTHER -> "sha256"

\* the text after the first occurrence of the matched keyword
AfterKeyword(p) ==
  LET kw == MatchedKeyword(p)
      at == CHOOSE k \in 1..Len(p) : p[k] = kw /\ \A j \in 1..(k - 1) : p[j] # kw
  IN SubSeq(p, at + 1, Len(p))

\* the matched keyword is followed by a single-quoted, non-empty value
KeywordThenQuoted(p) ==
  /\ \E kw \in Keywords : Contains(p, kw)
  /\ Len(Split(AfterKeyword(p))) >= 3
  /\ Split(AfterKeyword(p))[2] # <<>>

\* C10 (as claimed): for a pattern whose matched keyword is followed by a
\* single-quoted value, the record's value is that quoted substring and its
\* kind is the one of the first keyword in the order domain-name, ipv4-addr,
\* file:hashes.
C10_ParseValueAndKind ==
  (pc = "parsed" /\ KeywordThenQuoted(pattern)) =>
    /\ parsed.status = "record"
    /\ parsed.type = KindOf(MatchedKeyword(pattern))
    /\ parsed.value = Split(AfterKeyword(pattern))[2]

(* C11: a pattern that holds one of the keywords but fewer than two single
   quotes (one quote only, or none) is discarded: parsing it yields no record,
   so no partial value leaves the parser, and it raises no fault. *)
C11_UnclosedQuoteDiscarded ==
  (pc = "parsed" /\ Kind(pattern) # None /\ Len(Split(pattern)) < 3)
    => parsed.status = "none"

(* C12: an indicator whose pattern holds none of the three keywords yields no
   record, so the run issues no existence query and no create or update for
   it: every item the push stage queries or writes comes from an indicator
   whose pattern holds a keyword. *)
C12_NoRequestForUnsupported ==
  LET ind == FeedIndicators(feed) IN
  /\ pc \in {"check", "write", "push_pause"} => Kind(ind[idx].pattern) # None
  /\ \A k \in DOMAIN writes : Kind(ind[writes[k].item].pattern) # None

\* the run has sent a poll request, an existence query or a create/update,
\* or stands in the stages that send them
StoreOrFeedCalled ==
  \/ pc \in {"poll", "poll_pause", "check", "write", "push_pause"}
  \/ outs["poll"] # <<>> \/ reqs # <<>> \/ pages_ok > 0
  \/ outs["push"] # <<>> \/ writes # <<>> \/ q_pages # <<>>

(* C13: no poll request, existence query or create/update is issued unless
   the token request was answered with a token before; the answer that gave
   the token is the last token request of the run, and every create/update
   carries that same token. *)
C13_TokenFirstAndOnce ==
  LET t == outs["token"] IN
  /\ StoreOrFeedCalled => (t # <<>> /\ Last(t) = "ok" /\ access_token = "token")
  /\ token_reqs = Len(t)
  /\ \A k \in DOMAIN t : t[k] = "ok" => k = Len(t)
  /\ \A k \in DOMAIN writes : writes[k].token = "token"

\* the token came on the third attempt and two items were written with it
C13_Witness ==
  /\ pc = "done"
  /\ token_reqs = MAX_RETRIES
  /\ Len(writes) >= 2
  /\ \A k \in DOMAIN writes : writes[k].token = access_token

\* the values of the create/update requests of the run, in the order sent
WrittenValues == [k \in 1..Len(writes) |-> writes[k].payload.value]

(* C14 as stated: whenever the run is over and the push stage ran, retried or
   not, the create/update requests of the whole run are exactly the polled
   indicators, each once, in feed order. *)
C14_WritesAreTheFeedOnce ==
  (pc = "done" /\ outs["push"] # <<>> /\ Last(outs["push"]) = "ok")
    => WrittenValues = iocs.val

(* C14 amended: every request is for the item at its position of the polled
   list; within one attempt of the batch the requests go through the list in
   order, each item once, and a new attempt starts again at the first item;
   a run whose batch was not retried sends exactly the polled list. Stated
   for the newest request of every state: each request of a run is the
   newest one in the state that follows its sending. *)
C14_WritesInFeedOrderPerPass ==
  /\ writes # <<>> =>
       LET k == Len(writes)
           w == writes[k]
       IN /\ w.item \in 1..Len(iocs.val)
          /\ w.payload.value = iocs.val[w.item]
          /\ IF k = 1 THEN w.item = 1
             ELSE \/ w.pass = writes[k-1].pass /\ w.item = writes[k-1].item + 1
                  \/ w.pass > writes[k-1].pass /\ w.item = 1
  /\ (pc = "done" /\ outs["push"] = <<"ok">>) => WrittenValues = iocs.val

\* a batch of two different items that was interrupted after its first write
\* and then completed: three requests for two items
C14_Witness ==
  /\ pc = "done"
  /\ outs["push"] = <<"raise", "ok">>
  /\ Len(iocs.val) = 2 /\ iocs.val[1] # iocs.val[2]
  /\ Len(writes) = 3

\* the existence query of the current item has returned without a non-200 page
QueryReturned == pc = "write" /\ ~q_failed

(* C15: when the existence query returns over 200 pages only, its result is
   true exactly when one of the pages it requested reported resources; that
   page is then the last one it requested (no page is requested after the
   first hit), and a false result comes only after an empty page without
   next_token, every earlier page being an empty page with next_token. *)
C15_ExistsIffSomePageHit ==
  QueryReturned =>
    /\ q_pages # <<>>
    /\ exists <=> (\E k \in DOMAIN q_pages : q_pages[k] = "hit")
    /\ \A k \in DOMAIN q_pages : q_pages[k] = "hit" => k = Len(q_pages)
    /\ ~exists => Last(q_pages) = "empty_last"
    /\ \A k \in 1..(Len(q_pages) - 1) : q_pages[k] = "empty_next"

\* a hit on the second page, after an earlier item of the run was answered
\* not found
C15_Witness ==
  /\ QueryReturned
  /\ exists
  /\ q_pages = <<"empty_next", "hit">>
  /\ \E k \in DOMAIN writes : ~writes[k].found /\ ~writes[k].q_failed

\* the step in which the existence query of the current item meets a non-200
\* page
QueryFails == pc = "check" /\ pc' = "write" /\ q_failed'

(* C16: a non-200 page of an item's existence query resolves the query as
   not found and raises nothing: the step leaves the item, the attempt number
   of the batch and the retry record as they are and hands the item to the
   write, which is a create (POST); unless a later request raises, the next
   request of the run is for the next item in the same attempt. *)
C16_FailedQueryMeansCreate ==
  /\ [][QueryFails => (~exists' /\ idx' = idx /\ n' = n /\ waits' = waits /\ outs' = outs)]_vars
  /\ [](\A k \in DOMAIN writes :
         writes[k].q_failed =>
           /\ writes[k].method = "POST"
           /\ ~writes[k].found
           /\ (k < Len(writes) /\ raises = 0) =>
                /\ writes[k+1].pass = writes[k].pass
                /\ writes[k+1].item = writes[k].item + 1)
  /\ []((pc = "done" /\ outs["push"] # <<>> /\ raises = 0) => outs["push"] = <<"ok">>)

\* the query of the first item failed although the store held the value; the
\* item was created and the batch went on to the second item and completed
C16_Witness ==
  /\ pc = "done"
  /\ outs["push"] = <<"ok">>
  /\ Len(writes) = 2
  /\ writes[1].q_failed /\ writes[1].present /\ writes[1].method = "POST"
  /\ writes[2].item = 2

(* C17: the poll pauses exactly once after every page it was answered 200
   for and collected, the last page of the feed included, and the pause comes
   before the next page request: whenever a page is about to be requested,
   and whenever the poll is over, the pauses of the poll stage equal the
   pages collected; a page answered non-200 adds no pause. *)
C17_OnePausePerCollectedPage ==
  /\ pauses["poll"] = IF pc = "poll_pause" THEN pages_ok - 1 ELSE pages_ok
  /\ poll_failed => (reqs # <<>> /\ pc # "poll_pause")

\* a feed of two pages polled twice: the first call got page one, paused and
\* met a fault on page two; the second call got both pages and paused after each
C17_Witness ==
  /\ pc = "done"
  /\ Len(feed) = 2
  /\ outs["poll"] = <<"raise", "ok">>
  /\ pages_ok = 3
  /\ pauses["poll"] = 3

(* C18: every run terminates: with a feed of finitely many pages and
   existence queries of finitely many pages, whatever the services answer,
   the run eventually reaches the early exit or the completion log, and no
   stage is attempted more than MAX_RETRIES times. *)
C18_RunTerminates ==
  /\ <>Ended
  /\ [](\A s \in Stages : Len(outs[s]) <= MAX_RETRIES)

\* a run that ended after the push stage used all its attempts
C18_Witness ==
  /\ pc = "done"
  /\ outs["push"] = <<"raise", "raise", "raise">>
  /\ outs["token"] = <<"ok">> /\ outs["poll"] = <<"ok">>

\* the number of attempts of a stage that raised: retry returns at the first
\* attempt that does not raise, so only the last attempt can be another one
Raised(s) ==
  IF outs[s] # <<>> /\ Last(outs[s]) # "raise" THEN Len(outs[s]) - 1 ELSE Len(outs[s])

(* C19: retry waits once after every attempt that raised, the last one
   included: every attempt before the last one raised, a stage has as many
   waits as raising attempts, and a stage whose 3 attempts all raised has
   waited 5, 10 and 20 seconds by the time its exhausted outcome is visible
   to main, although no attempt follows the third wait. *)
C19_WaitAfterLastAttempt ==
  \A s \in Stages :
    /\ Len(outs[s]) > 1 => outs[s][Len(outs[s]) - 1] = "raise"
    /\ Len(waits[s]) = Raised(s)
    /\ Len(waits[s]) = MAX_RETRIES =>
         /\ waits[s] = <<INITIAL_DELAY, 2 * INITIAL_DELAY, 4 * INITIAL_DELAY>>
         /\ outs[s] = <<"raise", "raise", "raise">>
         /\ Ended

\* the token stage raised on all its attempts: three waits, then the early exit
C19_Witness ==
  /\ pc = "exit"
  /\ outs["token"] = <<"raise", "raise", "raise">>
  /\ waits["token"] = <<5, 10, 20>>
  /\ token_reqs = MAX_RETRIES

\* request k is a create that the store accepted
Created(k) == writes[k].method = "POST" /\ ~writes[k].failed /\ ~writes[k].raised

(* C20: after a raised fault the retried attempt of the batch starts at the
   first IOC again: the first request of every attempt is for item 1, an
   attempt that completes writes again every item written in an earlier
   attempt, and an item created in an earlier attempt whose existence query
   now succeeds is updated (PATCH), not created again. The first and the
   last part are stated for the newest request of every state. *)
C20_RetriedBatchStartsOver ==
  /\ writes # <<>> =>
       LET k == Len(writes)
           w == writes[k]
       IN /\ (k = 1 \/ writes[k-1].pass # w.pass) => w.item = 1
          /\ (w.pass > 1 /\ ~w.q_failed) =>
               \A j \in 1..(k-1) :
                 (writes[j].pass < w.pass /\ writes[j].item = w.item /\ Created(j))
                   => (w.found /\ w.method = "PATCH")
  /\ (pc = "done" /\ n > 1 /\ outs["push"] # <<>> /\ Last(outs["push"]) = "ok") =>
       \A k \in DOMAIN writes :
         writes[k].pass < n =>
           \E m \in (k+1)..Len(writes) :
             writes[m].pass = n /\ writes[m].item = writes[k].item

\* the batch was interrupted at item 2 after item 1 had been created; the
\* retried attempt updated item 1 and then wrote item 2
C20_Witness ==
  /\ pc = "done"
  /\ outs["push"] = <<"raise", "ok">>
  /\ Len(writes) >= 3
  /\ Created(1) /\ writes[1].item = 1 /\ writes[1].pass = 1
  /\ writes[2].pass = 2 /\ writes[2].item = 1 /\ writes[2].method = "PATCH"
  /\ writes[3].pass = 2 /\ writes[3].item = 2

====
